---- MODULE Spec2Model ----
(***************************************************************************)
(* Model of the crawl engine of script.py: looper_with_pool, pool,         *)
(* update_links_to_visit and process_page, run over a finite link graph.   *)
(*                                                                         *)
(* A URL is a number: 0 is the hostname (sys.argv[1]) and the others are   *)
(* the full links of the site.  links[u] is the set of full links          *)
(* process_page(u) returns, i.e. the hrefs of page u that passed           *)
(* get_internal_links and create_full_link; no page links to the string    *)
(* of the hostname itself.  Python tuples are TLA+ tuples, so Python's     *)
(* t[0], t[1] are t[1], t[2] here.                                         *)
(*                                                                         *)
(* Spec runs looper_with_pool over every site of NumPages pages that      *)
(* answers in one of MaxElapsed durations, TimedSpec gives the site one    *)
(* duration more, WideSpec one duration and one page more, FileSpec a link *)
(* to a file; SeqSpec runs the sequential looper over the sites of         *)
(* FileSpec.  UrlSpec applies create_full_link to hostnames and hrefs      *)
(* built from labels.                                                      *)
(***************************************************************************)
EXTENDS Integers, FiniteSets, Sequences, TLC

\* ---- bounds of the model ----
NumPages == 2
MaxElapsed == 1
MaxLabels == 3
MaxLabelLen == 2

hostname == 0
Pages == 1..NumPages
WidePages == 1..(NumPages + 1)
\* the full link of a file of the site, such as https://host/doc.pdf
FileUrl == NumPages + 2
URLS == {hostname} \cup WidePages \cup {FileUrl}
Elapsed == 1..MaxElapsed
WideElapsed == 1..(MaxElapsed + 1)
StatusCodes == {200, 404}

\* response.status_code of a URL: the site answers 404 for page NumPages and
\* 200 for every other URL
status_code(url) == IF url = NumPages THEN 404 ELSE 200

VARIABLES
    links,          \* the site: URL -> set of full links found on its page
    pc,             \* position of the main process in looper_with_pool
    links_to_visit, \* <<frontier set, stats tuple of the hostname page>>
    visited,        \* the visited set (the default-argument set object)
    stats,          \* set of <<url, elapsed, status_code>>
    inFlight,       \* links of args whose worker has not finished
    results,        \* results of the workers that returned, by link
    failed,         \* TRUE once a worker of the round raised
    todo,           \* links whose list_links_to_visit item pool has not merged yet
    fetchCount,     \* history: process_page calls per URL: 0, 1, or 2 for more
    nested,         \* looper: links_to_visit was rebound to the 3-tuple that
                    \* update_links_to_visit returns around the pair above
    norm,           \* <<hostname, href, result>> of a create_full_link call
    durations       \* the values response.elapsed can take on this site

vars == <<links, pc, links_to_visit, visited, stats, inFlight, results,
          failed, todo, fetchCount, nested, norm, durations>>

NoResult == <<>>

Count(n) == IF n = 0 THEN 1 ELSE 2

\* a process_page that drops the links of a page answered with an error status
process_page_ok_only(url, e) ==
    <<IF status_code(url) >= 400 THEN {} ELSE links[url],
      <<url, e, status_code(url)>>>>

\* process_page(url, session) when session.get returns a response
process_page(url, e) == <<links[url], <<url, e, status_code(url)>>>>

\* an update loop that puts a link found again back into the frontier
RECURSIVE offer_links_readd(_, _)
offer_links_readd(new, st) ==
    IF new = {} THEN st
    ELSE LET link == CHOOSE l \in new : TRUE
         IN offer_links_readd(new \ {link},
                              <<st[1] \cup {link}, st[2] \cup {link}>>)

\* the loop of update_links_to_visit over new_links[0]; st = <<frontier, visited>>
RECURSIVE offer_links(_, _)
offer_links(new, st) ==
    IF new = {} THEN st
    ELSE LET link == CHOOSE l \in new : TRUE
             nxt == IF link \in st[2]
                    THEN <<st[1] \ {link}, st[2]>>
                    ELSE <<st[1] \cup {link}, st[2] \cup {link}>>
         IN offer_links(new \ {link}, nxt)

\* update_links_to_visit(new_links, links_to_visit, visited, stats)
update_links_to_visit(new_links, ltv, vis, st) ==
    LET r == offer_links(new_links[1], <<ltv[1], vis>>)
    IN <<<<r[1], ltv[2]>>, r[2], st \cup {new_links[2]}>>

\* the state of the process when main calls looper_with_pool(session)
InitState ==
    /\ pc = "start"
    /\ links_to_visit = <<{}, NoResult>>
    /\ visited = {}
    /\ stats = {}
    /\ inFlight = {}
    /\ results = [u \in {} |-> NoResult]
    /\ failed = FALSE
    /\ todo = {}
    /\ fetchCount = [u \in URLS |-> 0]
    /\ nested = FALSE
    /\ norm = NoResult

\* a site of NumPages pages
Init ==
    /\ links \in [URLS -> SUBSET Pages]
    /\ links[NumPages + 1] = {}
    /\ links[FileUrl] = {}
    /\ durations = Elapsed
    /\ InitState

\* the same sites, answering in one duration more
TimedInit ==
    /\ links \in [URLS -> SUBSET Pages]
    /\ links[NumPages + 1] = {}
    /\ links[FileUrl] = {}
    /\ durations = WideElapsed
    /\ InitState

\* a site of NumPages + 1 pages, answering in one duration more
WideInit ==
    /\ links \in [URLS -> SUBSET WidePages]
    /\ links[FileUrl] = {}
    /\ durations = WideElapsed
    /\ InitState

\* looper_with_pool: links_to_visit = process_page(get_hostname(), session); stats = set()
SeedReturn ==
    /\ pc = "start"
    /\ \E e \in durations : links_to_visit' = process_page(hostname, e)
    /\ stats' = {}
    /\ fetchCount' = [fetchCount EXCEPT ![hostname] = Count(@)]
    /\ pc' = "loop"
    /\ UNCHANGED <<links, visited, inFlight, results, failed, todo>>
    /\ UNCHANGED <<nested, norm, durations>>

\* session.get raises in the hostname fetch: nothing catches it
SeedRaise ==
    /\ pc = "start"
    /\ fetchCount' = [fetchCount EXCEPT ![hostname] = Count(@)]
    /\ pc' = "aborted"
    /\ UNCHANGED <<links, links_to_visit, visited, stats, inFlight, results,
                   failed, todo>>
    /\ UNCHANGED <<nested, norm, durations>>

\* while True: if len(links_to_visit[0]) > 0: pool(...) builds args and starts the workers
PoolStart ==
    /\ pc = "loop"
    /\ links_to_visit[1] # {}
    /\ inFlight' = links_to_visit[1]
    /\ results' = [u \in {} |-> NoResult]
    /\ failed' = FALSE
    /\ pc' = "workers"
    /\ UNCHANGED <<links, links_to_visit, visited, stats, todo, fetchCount>>
    /\ UNCHANGED <<nested, norm, durations>>

\* else: break; return stats
Return ==
    /\ pc = "loop"
    /\ links_to_visit[1] = {}
    /\ pc' = "done"
    /\ UNCHANGED <<links, links_to_visit, visited, stats, inFlight, results,
                   failed, todo, fetchCount>>
    /\ UNCHANGED <<nested, norm, durations>>

\* a worker's process_page(link, session) returns
WorkerReturn(u) ==
    /\ u \in inFlight
    /\ \E e \in durations :
         results' = [v \in DOMAIN results \cup {u} |->
                        IF v = u THEN process_page(u, e) ELSE results[v]]
    /\ inFlight' = inFlight \ {u}
    /\ fetchCount' = [fetchCount EXCEPT ![u] = Count(@)]
    /\ UNCHANGED <<links, pc, links_to_visit, visited, stats, failed, todo>>
    /\ UNCHANGED <<nested, norm, durations>>

\* a worker's process_page(link, session) raises
WorkerRaise(u) ==
    /\ u \in inFlight
    /\ inFlight' = inFlight \ {u}
    /\ failed' = TRUE
    /\ fetchCount' = [fetchCount EXCEPT ![u] = Count(@)]
    /\ UNCHANGED <<links, pc, links_to_visit, visited, stats, results, todo>>
    /\ UNCHANGED <<nested, norm, durations>>

\* a pool that hands back the results so far without waiting for the workers
AllReturnedNoWait == TRUE

\* p.starmap blocks until every task of args has finished
AllReturned == inFlight = {}

\* starmap returns list_links_to_visit, one item per link of args
Join ==
    /\ pc = "workers"
    /\ AllReturned
    /\ ~failed
    /\ todo' = DOMAIN results
    /\ pc' = "merge"
    /\ UNCHANGED <<links, links_to_visit, visited, stats, inFlight, results,
                   failed, fetchCount>>
    /\ UNCHANGED <<nested, norm, durations>>

\* starmap re-raises a worker's exception in pool; the with block ends the pool
Abort ==
    /\ pc = "workers"
    /\ failed
    /\ inFlight' = {}
    /\ pc' = "aborted"
    /\ UNCHANGED <<links, links_to_visit, visited, stats, results, failed,
                   todo, fetchCount>>
    /\ UNCHANGED <<nested, norm, durations>>

\* for item in list_links_to_visit: update_links_to_visit(item, ...).
\* The items come in the order of args, the iteration order of the set
\* links_to_visit[0], which is arbitrary: the next item is any unmerged one.
MergeStep(u) ==
    /\ pc = "merge"
    /\ u \in todo
    /\ LET r == update_links_to_visit(results[u], links_to_visit, visited, stats)
       IN /\ links_to_visit' = r[1]
          /\ visited' = r[2]
          /\ stats' = r[3]
    /\ todo' = todo \ {u}
    /\ pc' = IF todo = {u} THEN "loop" ELSE "merge"
    /\ results' = IF todo = {u} THEN [v \in {} |-> NoResult] ELSE results
    /\ UNCHANGED <<links, inFlight, failed, fetchCount>>
    /\ UNCHANGED <<nested, norm, durations>>

Next ==
    \/ SeedReturn
    \/ SeedRaise
    \/ PoolStart
    \/ Return
    \/ \E u \in URLS : WorkerReturn(u)
    \/ \E u \in URLS : WorkerRaise(u)
    \/ Join
    \/ Abort
    \/ \E u \in URLS : MergeStep(u)

Spec == Init /\ [][Next]_vars

WideSpec == WideInit /\ [][Next]_vars

TimedSpec == TimedInit /\ [][Next]_vars

\* the behaviours in which the processes keep running: the main process and
\* every started worker take their next step
FairSpec == Spec /\ WF_vars(Next)

\* ---- the sequential looper ----

\* "." in [link[-4], link[-5]]: the link ends like a file name
is_file(link) == link = FileUrl

\* the entry looper records for a link it skipped or whose fetch raised
ZeroStats(link) == <<link, 0, 0>>

\* a site of NumPages pages whose pages may also link to the file
FileInit ==
    /\ links \in [URLS -> SUBSET (Pages \cup {FileUrl})]
    /\ links[NumPages + 1] = {}
    /\ links[FileUrl] = {}
    /\ durations = Elapsed
    /\ InitState

\* the state of the process when main calls looper(session) instead
SeqInit ==
    /\ links \in [URLS -> SUBSET (Pages \cup {FileUrl})]
    /\ links[NumPages + 1] = {}
    /\ links[FileUrl] = {}
    /\ durations = Elapsed
    /\ pc = "seq_start"
    /\ links_to_visit = <<{}, NoResult>>
    /\ visited = {}
    /\ stats = {}
    /\ inFlight = {}
    /\ results = [u \in {} |-> NoResult]
    /\ failed = FALSE
    /\ todo = {}
    /\ fetchCount = [u \in URLS |-> 0]
    /\ nested = FALSE
    /\ norm = NoResult

\* the end of one iteration of "for link in list(links_to_visit[0])"
NextLink(link) ==
    /\ todo' = todo \ {link}
    /\ pc' = IF todo = {link} THEN "seq_loop" ELSE "seq_for"

\* links_to_visit[0] is a tuple: .discard raises AttributeError in the try
\* block or in update_links_to_visit, the except block catches it and raises
\* it again at its own links_to_visit[0].discard(link); looper is left
Crash ==
    /\ pc' = "crashed"
    /\ todo' = {}

\* looper: links_to_visit = process_page(get_hostname(), session); stats = set()
LooperSeedReturn ==
    /\ pc = "seq_start"
    /\ \E e \in durations : links_to_visit' = process_page(hostname, e)
    /\ stats' = {}
    /\ fetchCount' = [fetchCount EXCEPT ![hostname] = Count(@)]
    /\ pc' = "seq_loop"
    /\ UNCHANGED <<links, visited, inFlight, results, failed, todo, nested, norm, durations>>

\* session.get raises in the hostname fetch, which is outside the try block
LooperSeedRaise ==
    /\ pc = "seq_start"
    /\ fetchCount' = [fetchCount EXCEPT ![hostname] = Count(@)]
    /\ pc' = "aborted"
    /\ UNCHANGED <<links, links_to_visit, visited, stats, inFlight, results,
                   failed, todo, nested, norm, durations>>

\* while True: if len(links_to_visit[0]) > 0: for link in list(links_to_visit[0]).
\* Once links_to_visit is the 3-tuple, links_to_visit[0] is a tuple of length 2
\* or 3, the for loop takes its first item, a set or a tuple, as link, link[-4]
\* raises and the except block raises again.
LooperPass ==
    /\ pc = "seq_loop"
    /\ nested \/ links_to_visit[1] # {}
    /\ IF nested
       THEN Crash
       ELSE /\ todo' = links_to_visit[1]
            /\ pc' = "seq_for"
    /\ UNCHANGED <<links, links_to_visit, visited, stats, inFlight, results,
                   failed, fetchCount, nested, norm, durations>>

\* else: break; return stats
LooperBreak ==
    /\ pc = "seq_loop"
    /\ ~nested
    /\ links_to_visit[1] = {}
    /\ pc' = "done"
    /\ UNCHANGED <<links, links_to_visit, visited, stats, inFlight, results,
                   failed, todo, fetchCount, nested, norm, durations>>

\* if "." in [link[-4], link[-5]]: discard, visited.add, stats.add, continue
LooperFile(link) ==
    /\ pc = "seq_for"
    /\ link \in todo
    /\ is_file(link)
    /\ IF nested
       THEN Crash /\ UNCHANGED <<links_to_visit, visited, stats>>
       ELSE /\ links_to_visit' = <<links_to_visit[1] \ {link}, links_to_visit[2]>>
            /\ visited' = visited \cup {link}
            /\ stats' = stats \cup {ZeroStats(link)}
            /\ NextLink(link)
    /\ UNCHANGED <<links, inFlight, results, failed, fetchCount, nested, norm, durations>>

\* if link not in visited: visited.add(link); links_to_visit =
\* update_links_to_visit(process_page(link, session), ...), process_page returns.
\* The call returns the 3-tuple (links_to_visit, visited, stats), which the
\* assignment binds to links_to_visit.  On the 3-tuple update_links_to_visit
\* raises at the first link of the page; a page without links leaves it alone.
LooperFetchReturn(link) ==
    /\ pc = "seq_for"
    /\ link \in todo
    /\ ~is_file(link)
    /\ link \notin visited
    /\ fetchCount' = [fetchCount EXCEPT ![link] = Count(@)]
    /\ \E e \in durations :
         LET new_links == process_page(link, e)
             r == update_links_to_visit(new_links, links_to_visit,
                                        visited \cup {link}, stats)
         IN IF ~nested
            THEN /\ links_to_visit' = r[1]
                 /\ visited' = r[2]
                 /\ stats' = r[3]
                 /\ NextLink(link)
            ELSE IF new_links[1] = {}
            THEN /\ visited' = visited \cup {link}
                 /\ stats' = stats \cup {new_links[2]}
                 /\ NextLink(link)
                 /\ UNCHANGED links_to_visit
            ELSE /\ visited' = visited \cup {link}
                 /\ Crash
                 /\ UNCHANGED <<links_to_visit, stats>>
    /\ nested' = TRUE
    /\ UNCHANGED <<links, inFlight, results, failed, norm, durations>>

\* if link not in visited: visited.add(link); process_page raises;
\* except Exception: discard, visited.add, stats.add
LooperFetchRaise(link) ==
    /\ pc = "seq_for"
    /\ link \in todo
    /\ ~is_file(link)
    /\ link \notin visited
    /\ fetchCount' = [fetchCount EXCEPT ![link] = Count(@)]
    /\ failed' = TRUE
    /\ visited' = visited \cup {link}
    /\ IF nested
       THEN Crash /\ UNCHANGED <<links_to_visit, stats>>
       ELSE /\ links_to_visit' = <<links_to_visit[1] \ {link}, links_to_visit[2]>>
            /\ stats' = stats \cup {ZeroStats(link)}
            /\ NextLink(link)
    /\ UNCHANGED <<links, inFlight, results, nested, norm, durations>>

\* else: links_to_visit[0].discard(link)
LooperSkip(link) ==
    /\ pc = "seq_for"
    /\ link \in todo
    /\ ~is_file(link)
    /\ link \in visited
    /\ IF nested
       THEN Crash /\ UNCHANGED links_to_visit
       ELSE /\ links_to_visit' = <<links_to_visit[1] \ {link}, links_to_visit[2]>>
            /\ NextLink(link)
    /\ UNCHANGED <<links, visited, stats, inFlight, results, failed,
                   fetchCount, nested, norm, durations>>

SeqNext ==
    \/ LooperSeedReturn
    \/ LooperSeedRaise
    \/ LooperPass
    \/ LooperBreak
    \/ \E link \in URLS : LooperFile(link)
    \/ \E link \in URLS : LooperFetchReturn(link)
    \/ \E link \in URLS : LooperFetchRaise(link)
    \/ \E link \in URLS : LooperSkip(link)

SeqSpec == SeqInit /\ [][SeqNext]_vars

FileSpec == FileInit /\ [][Next]_vars

\* ---- main around the crawl: SIGINT, the output, a second call ----

\* signal_handler: SIGINT during the run prints a line and calls sys.exit(0);
\* SystemExit leaves looper_with_pool and main, the pool is terminated
Interrupt ==
    /\ pc \in {"start", "loop", "workers", "merge"}
    /\ pc' = "exited"
    /\ inFlight' = {}
    /\ UNCHANGED <<links, links_to_visit, visited, stats, results, failed,
                   todo, fetchCount, nested, norm, durations>>

\* main: close_session(session); pretty_print(visited); save_urls(visited)
SaveUrls ==
    /\ pc = "done"
    /\ pc' = "saved"
    /\ UNCHANGED <<links, links_to_visit, visited, stats, inFlight, results,
                   failed, todo, fetchCount, nested, norm, durations>>

MainNext ==
    \/ Next
    \/ Interrupt
    \/ SaveUrls

MainSpec == Init /\ [][MainNext]_vars

\* a caller calls looper_with_pool(session) again in the same process: the
\* default argument visited is the set object of the first call
Rerun ==
    /\ pc = "done"
    /\ pc' = "start"
    /\ links_to_visit' = <<{}, NoResult>>
    /\ stats' = {}
    /\ fetchCount' = [u \in URLS |-> 0]
    /\ UNCHANGED <<links, visited, inFlight, results, failed, todo, nested, norm, durations>>

RerunNext ==
    \/ Next
    \/ Rerun

RerunSpec == Init /\ [][RerunNext]_vars

\* looper_with_pool and looper, each from its first call
CrawlInit == Init \/ SeqInit

CrawlNext ==
    \/ Next
    \/ SeqNext

CrawlSpec == CrawlInit /\ [][CrawlNext]_vars

\* ---- create_full_link ----
\* A string is a sequence of characters, an authority (netloc) the sequence of
\* its dot-separated labels; <<>> is the empty netloc of an href such as
\* /about.  An href is <<netloc, path>>; the scheme of every URL is the same.

Chars == {"a", "b"}
Labels == UNION {[1..n -> Chars] : n \in 1..MaxLabelLen}
Netlocs == UNION {[1..n -> Labels] : n \in 1..MaxLabels}
Paths == {"/about", "/x"}
None == "None"

\* urlsplit(url).netloc, the string: the labels joined by "."
RECURSIVE NetlocString(_)
NetlocString(netloc) ==
    IF netloc = <<>> THEN <<>>
    ELSE IF Len(netloc) = 1 THEN netloc[1]
    ELSE netloc[1] \o <<".">> \o NetlocString(Tail(netloc))

\* part in string, Python's substring test
IsSubstring(part, string) ==
    \E i \in 0..(Len(string) - Len(part)) :
        SubSeq(string, i + 1, i + Len(part)) = part

\* urljoin(hostname, link): the netloc of link when it has one, else the
\* netloc of hostname, with the path of link
urljoin(host, netloc, path) == <<IF netloc = <<>> THEN host ELSE netloc, path>>

\* create_full_link(hostname, internal_link); host is hostname's netloc
create_full_link(host, href) ==
    LET parts == host
        inner == SubSeq(parts, 2, Len(parts) - 1)
    IN IF href[1] # <<>>
       THEN IF \E i \in 1..Len(inner) :
                   IsSubstring(inner[i], NetlocString(href[1]))
            THEN urljoin(host, href[1], href[2])
            ELSE None
       ELSE urljoin(host, <<>>, href[2])

UrlInit ==
    /\ norm \in {<<h, <<n, p>>, "pending">> :
                    h \in Netlocs, n \in Netlocs \cup {<<>>}, p \in Paths}
    /\ pc = "url"
    /\ links = [u \in URLS |-> {}]
    /\ durations = Elapsed
    /\ links_to_visit = <<{}, NoResult>>
    /\ visited = {}
    /\ stats = {}
    /\ inFlight = {}
    /\ results = [u \in {} |-> NoResult]
    /\ failed = FALSE
    /\ todo = {}
    /\ fetchCount = [u \in URLS |-> 0]
    /\ nested = FALSE

\* process_page: create_full_link(get_hostname(), link) for a link of the page
CreateFullLink ==
    /\ pc = "url"
    /\ norm' = <<norm[1], norm[2], create_full_link(norm[1], norm[2])>>
    /\ pc' = "url_done"
    /\ UNCHANGED <<links, links_to_visit, visited, stats, inFlight, results,
                   failed, todo, fetchCount, nested, durations>>

UrlNext == CreateFullLink

UrlSpec == UrlInit /\ [][UrlNext]_vars

\* ---- vocabulary of the properties ----
frontier == links_to_visit[1]
EntriesOf(u) == {t \in stats : t[1] = u}

RECURSIVE Closure(_)
Closure(S) ==
    LET N == S \cup UNION {links[u] : u \in S}
    IN IF N = S THEN S ELSE Closure(N)

\* the URLs reached from the hostname page by following links
ReachableFromSeed == Closure(links[hostname])

\* C1: no URL is passed to process_page more than once in a run of
\* looper_with_pool.
C1_NoUrlFetchedTwice == \A u \in URLS : fetchCount[u] <= 1

\* C2: a run of looper_with_pool in which every fetch returns eventually finds
\* the frontier empty and returns its stats (an aborted run, in which a fetch
\* raised, is outside the claim).
C2_PoolTerminates == <>(pc \in {"done", "aborted"})

\* C3: when looper_with_pool has returned, every URL reachable from the
\* hostname page by following links has been fetched and has an entry in stats.
C3_AllReachableFetched ==
    pc = "done" =>
        \A u \in ReachableFromSeed : fetchCount[u] >= 1 /\ EntriesOf(u) # {}

\* C4: a fetch that raises a transport error, in a pool worker or for the
\* hostname page, never aborts the run.
C4_RunNeverAborts == pc # "aborted"

\* C5: a URL U that update_links_to_visit has offered and that has not been
\* fetched yet stays in the frontier when a second update_links_to_visit call
\* offers it again.
C5_SecondOfferKeepsUrl ==
    [][\A u \in URLS, U \in URLS :
          (/\ pc = "merge"
           /\ u \in todo
           /\ U \in results[u][1]
           /\ U \in visited
           /\ U \in frontier
           /\ fetchCount[U] = 0
           /\ todo' = todo \ {u})
          => U \in links_to_visit'[1]]_vars

\* C6: when the hostname page has no links, the returned stats hold exactly one
\* entry, the stats tuple of the hostname page.
C6_SeedOnlyStats ==
    (pc = "done" /\ links[hostname] = {}) =>
        (Cardinality(stats) = 1 /\ stats = {links_to_visit[2]})

\* C7: the frontier links_to_visit[0] and the visited set are disjoint in
\* every reachable state.
C7_FrontierVisitedDisjoint == frontier \cap visited = {}

\* C8: when the run has returned, every visited URL has exactly one entry in
\* stats and no URL has more than one.
C8_OneEntryPerUrl ==
    pc = "done" =>
        /\ \A u \in visited : Cardinality(EntriesOf(u)) = 1
        /\ \A u \in URLS : Cardinality(EntriesOf(u)) <= 1

\* C9: once the fetch of a link has concluded and pool has merged the round,
\* the link is in visited, is not in the frontier and has an entry in stats.
C9_FetchedIsVisited ==
    pc \in {"loop", "done"} =>
        \A u \in WidePages :
            fetchCount[u] >= 1 =>
                u \in visited /\ u \notin frontier /\ EntriesOf(u) # {}

\* C10: the frontier-empty test of looper_with_pool is evaluated, and the
\* function returns, only when no worker is in flight and every result of the
\* round has been merged; it returns only with an empty frontier.
C10_ReturnsAtFixedPoint ==
    /\ pc \in {"loop", "done"} => (inFlight = {} /\ todo = {} /\ DOMAIN results = {})
    /\ pc = "done" => frontier = {}

\* a run that went through two pool rounds and returned
C10_Witness ==
    /\ pc = "done"
    /\ \E u \in WidePages : fetchCount[u] >= 2

\* C11: a process interrupted by SIGINT during the run does not exit from the
\* signal handler: it goes on to pretty_print and save_urls with the stats
\* collected so far.
C11_InterruptKeepsStats == pc # "exited"

\* C12: every call of looper_with_pool starts with an empty visited set.
C12_RunStartsEmpty == pc = "start" => visited = {}

\* C14: a link that points at a file is never passed to process_page by a
\* crawl loop; its only entry in stats is the skipped entry.
C14_FileNeverFetched ==
    \A u \in URLS :
        is_file(u) => (fetchCount[u] = 0 /\ EntriesOf(u) \subseteq {ZeroStats(u)})

\* C16: when a run of looper in which no fetch raised has ended, every page
\* reachable from the hostname page has been fetched and has an entry in stats.
C16_LooperScansAll ==
    (pc \in {"done", "crashed"} /\ ~failed) =>
        \A u \in ReachableFromSeed \ {FileUrl} :
            fetchCount[u] >= 1 /\ EntriesOf(u) # {}

\* C18: looper leaves its while loop by the break of the empty frontier and
\* in no other way, whether the fetches of the links return or raise.
C18_LooperBreaks == pc # "crashed"

\* C13: create_full_link returns None for an href whose authority is not the
\* hostname's and has no label equal to a non-edge label of the hostname's
\* authority, and the hostname joined with the path for an href without
\* authority.
C13_SameOriginFilter ==
    pc = "url_done" =>
        LET host == norm[1]
            netloc == norm[2][1]
        IN /\ (/\ netloc # <<>>
               /\ netloc # host
               /\ ~ \E i \in 1..Len(netloc), j \in 2..(Len(host) - 1) :
                      netloc[i] = host[j])
              => norm[3] = None
           /\ netloc = <<>> => norm[3] = <<host, norm[2][2]>>

\* C17: create_full_link accepts an href whose authority is the hostname's
\* authority, for a hostname of any number of labels.
C17_OwnAuthorityAccepted ==
    (pc = "url_done" /\ norm[2][1] = norm[1]) => norm[3] # None

C19_RemovedStaysRemoved ==
    [][/\ visited \subseteq visited'
       /\ \A u \in URLS :
            /\ (u \in links_to_visit[1] /\ u \notin links_to_visit'[1])
                  => u \in visited'
            /\ (/\ pc \notin {"start", "seq_start"}
                /\ u \notin links_to_visit[1]
                /\ u \in links_to_visit'[1])
                  => u \notin visited]_vars

\* a link of the hostname page has left the frontier and is in visited
C19_Witness ==
    \E u \in links[hostname] : u \in visited /\ u \notin frontier

====
